---- MODULE Spec2Model ----
(***************************************************************************)
(* Model of midi_to_dataframe: MidiReader (midi_reader.py) together with   *)
(* the NoteMapper lookups (note_mapper.py) it consults.                    *)
(*                                                                         *)
(* Representation:                                                         *)
(*   - durations are exact rationals, held as integer counts of 1/64 of a  *)
(*     quarter note (DurUnit); 0.125 is 8, 0.25 is 16;                     *)
(*   - beats are integer counts of 1/64 of a beat (BeatUnit);              *)
(*   - an OrderedDict is a sequence of <<key, value>> pairs in insertion   *)
(*     order; a dict / defaultdict is a function on its key set;           *)
(*   - a comma-joined notes string is the sequence of its words; a token   *)
(*     "<instrument>_<symbol>_<duration>" is <<instrument, symbol, dur>>.  *)
(***************************************************************************)
EXTENDS Integers, Sequences, FiniteSets, TLC

(***************************************************************************)
(* Bounds of the model                                                     *)
(***************************************************************************)
MaxTick == 2
MaxEvents == 3
MaxNoteEvents == 4
MaxTracks == 2
MaxCalls == 2
MeterMaxTick == 26
MaxRows == 3
MaxLookupTick == 4
MaxDurationTicks == 12
MaxTimelineTick == 3

(***************************************************************************)
(* Program constants                                                       *)
(***************************************************************************)
DEFAULT_MIDI_BPM == 120
DEFAULT_MIDI_PROGRAM_NUM == -1
DEFAULT_MIDI_TIME_SIGNATURE == <<4, 4>>
MIDI_DRUM_CHANNEL == 9
REST == <<"rest">>
PERCUSSION == "percussion"
MAX_MIDI_NOTE_NUM == 127
MAX_OCTAVE_INDEX == 11
NOTE_NAMES == <<"c", "c#", "d", "d#", "e", "f", "f#", "g", "g#", "a", "a#", "b">>
MAX_TIMESTAMP == 10000000
DEFAULT_RESOLUTION == 120
DEFAULT_PROGRAM == 1
None == <<>>
\* current_program = None (no program set on the track yet), apart from every program number
ProgramNone == -2

DurUnit == 64
BeatUnit == 64

\* NoteLength: ratios of a quarter note, as <<numerator, denominator>>
QUARTER == <<1, 1>>
EIGHTH == <<1, 2>>
SIXTEENTH == <<1, 4>>
THIRTY_SECOND == <<1, 8>>
NoteLength == {QUARTER, EIGHTH, SIXTEENTH, THIRTY_SECOND}
DEFAULT_TIMING_QUANTIZATION == SIXTEENTH

(***************************************************************************)
(* The note-mapping configuration loaded by NoteMapper.__init__            *)
(***************************************************************************)
\* mappings["midi-to-text"]: program number -> program name
MidiToText == (1 :> "piano") @@ (30 :> "guitar")
\* mappings["midi-to-text"]["percussion"]: drum pitch -> drum name
MidiToTextPercussion == (36 :> <<"kick">>)
\* mappings["durations"]: program name -> allowed durations (in 1/64 quarter notes)
duration_values ==
    ("piano" :> <<16, 32, 64>>) @@ ("percussion" :> <<16>>) @@ ("bass" :> <<4, 20, 12, 28, 6>>)

\* self._notes, built by the loop of NoteMapper.__init__
notes_table ==
    [i \in {k \in 0..(MAX_OCTAVE_INDEX * Len(NOTE_NAMES) - 1) : k <= MAX_MIDI_NOTE_NUM} |->
        <<NOTE_NAMES[(i % Len(NOTE_NAMES)) + 1], i \div Len(NOTE_NAMES)>>]

(***************************************************************************)
(* Pure helpers                                                            *)
(***************************************************************************)
Abs(x) == IF x < 0 THEN -x ELSE x

SetMax(S) == CHOOSE x \in S : \A y \in S : y <= x

SetMin(S) == CHOOSE x \in S : \A y \in S : x <= y

\* Python 3 round(): nearest integer of num/den, ties to the even neighbour
PyRound(num, den) ==
    LET q == num \div den
        r == num % den
    IN  IF 2 * r < den THEN q
        ELSE IF 2 * r > den THEN q + 1
        ELSE IF q % 2 = 0 THEN q ELSE q + 1

\* dict assignment d[k] = v on an OrderedDict: a known key keeps its place
RECURSIVE od_replace(_, _, _)
od_replace(od, k, v) ==
    IF od = <<>> THEN <<>>
    ELSE IF Head(od)[1] = k THEN <<<<k, v>>>> \o Tail(od)
    ELSE <<Head(od)>> \o od_replace(Tail(od), k, v)

od_keys(od) == {od[i][1] : i \in 1..Len(od)}

od_set(od, k, v) ==
    IF k \in od_keys(od) THEN od_replace(od, k, v) ELSE Append(od, <<k, v>>)

\* NoteMapper.get_program_name; a missing key raises KeyError
program_name_raises(program_number) ==
    program_number >= 0 /\ program_number \notin DOMAIN MidiToText

get_program_name(program_number) ==
    IF program_number >= 0 THEN MidiToText[program_number] ELSE PERCUSSION

\* NoteMapper.round_duration; duration is ticks/resolution
RECURSIVE min_by_distance(_, _, _, _)
min_by_distance(allowed, best, ticks, res) ==
    IF allowed = <<>> THEN best
    ELSE LET x == Head(allowed)
             closer == Abs(x * res - ticks * DurUnit) < Abs(best * res - ticks * DurUnit)
         IN  min_by_distance(Tail(allowed), IF closer THEN x ELSE best, ticks, res)

\* mutant: max() in place of min(): the allowed value farthest from the duration
round_duration_Farthest(program, ticks, res) ==
    IF program \in DOMAIN duration_values
    THEN LET allowed_values == duration_values[program]
         IN  allowed_values[CHOOSE i \in 1..Len(allowed_values) :
                               \A j \in 1..Len(allowed_values) :
                                  Abs(allowed_values[i] * res - ticks * DurUnit)
                                  >= Abs(allowed_values[j] * res - ticks * DurUnit)]
    ELSE 0

round_duration(program, ticks, res) ==
    IF program \in DOMAIN duration_values
    THEN LET allowed_values == duration_values[program]
         IN  min_by_distance(Tail(allowed_values), Head(allowed_values), ticks, res)
    ELSE 0

\* MidiReader._round_to_sixteenth_note: base 0.125, Python round()
round_to_sixteenth_note(x) == 8 * PyRound(x, 8)

\* lines 313-320: the duration of ticks/res quarter notes, rounded to the nearest
\* step defined for the instrument and then to a multiple of 0.125
quantize_duration(instrument, ticks, res) ==
    round_to_sixteenth_note(round_duration(instrument, ticks, res))

\* NoteMapper.get_note_name; None when the lookup fails
get_note_name(note_number, program_number) ==
    IF program_number >= 0 /\ note_number \in DOMAIN notes_table
    THEN notes_table[note_number]
    ELSE IF note_number \in DOMAIN MidiToTextPercussion
    THEN MidiToTextPercussion[note_number]
    ELSE None

\* MidiReader._round_down
round_down(num, divisor) == IF divisor = 0 THEN 0 ELSE num - (num % divisor)

\* MidiReader._get_value_at_timestamp
RECURSIVE scan_values(_, _, _)
scan_values(values, timestamp, value_at_timestamp) ==
    IF values = <<>> THEN value_at_timestamp
    ELSE IF Head(values)[1] <= timestamp
    THEN scan_values(Tail(values), timestamp, Head(values)[2])
    ELSE value_at_timestamp

\* mutant: the value of the last entry, whatever the timestamp
get_value_at_timestamp_Last(values, timestamp) == values[Len(values)][2]

get_value_at_timestamp(values, timestamp) ==
    scan_values(values, timestamp, values[1][2])

(***************************************************************************)
(* MIDI events.  Ticks are absolute (pattern.make_ticks_abs()).            *)
(***************************************************************************)
NoteOnEvent(tick, channel, pitch, velocity) ==
    [type |-> "NoteOnEvent", tick |-> tick, channel |-> channel, pitch |-> pitch, velocity |-> velocity]

NoteOffEvent(tick, channel, pitch) ==
    [type |-> "NoteOffEvent", tick |-> tick, channel |-> channel, pitch |-> pitch, velocity |-> 64]

TimeSignatureEvent(tick, numerator, denominator) ==
    [type |-> "TimeSignatureEvent", tick |-> tick, numerator |-> numerator, denominator |-> denominator]

SetTempoEvent(tick, bpm) ==
    [type |-> "SetTempoEvent", tick |-> tick, bpm |-> bpm]

ProgramChangeEvent(tick, value) ==
    [type |-> "ProgramChangeEvent", tick |-> tick, value |-> value]

ControlChangeEvent(tick) ==
    [type |-> "ControlChangeEvent", tick |-> tick]

IsNoteEvent(event) == event.type = "NoteOnEvent" \/ event.type = "NoteOffEvent"

\* line 275: a true Note On has positive velocity
IsTrueNoteOn(event) == event.type = "NoteOnEvent" /\ event.velocity > 0

\* mutant: only a Note Off event ends a note
IsNoteOff_TypeOnly(event) == event.type = "NoteOffEvent"

\* line 278: Note Off, or Note On with velocity 0
IsNoteOff(event) ==
    event.type = "NoteOffEvent" \/ (event.type = "NoteOnEvent" /\ event.velocity = 0)

(***************************************************************************)
(* Scratch state of a MidiReader, as a record                              *)
(*   ts : _time_signature_by_timestamp    bpm : _bpm_by_timestamp          *)
(*   text : _text_sequence                on  : _on_notes                  *)
(***************************************************************************)
EmptyMap == <<>>

EmptyScratch == [ts |-> <<>>, bpm |-> <<>>, text |-> EmptyMap, on |-> EmptyMap]

\* MidiReader._reset_intermediary_variables
reset_intermediary_variables(st) == EmptyScratch

\* self._text_sequence[start_tick].append(representation) on a defaultdict(list)
text_append(text, start_tick, representation) ==
    IF start_tick \in DOMAIN text
    THEN [text EXCEPT ![start_tick] = Append(@, representation)]
    ELSE text @@ (start_tick :> <<representation>>)

map_del(m, k) == [x \in (DOMAIN m) \ {k} |-> m[x]]

\* NoteMapper._log_note_lookup_failure on the nested dict program -> note -> count
log_note_lookup_failure(failures, program_number, note_number) ==
    LET failures_for_prog == IF program_number \in DOMAIN failures
                             THEN failures[program_number] ELSE EmptyMap
        failures_for_note == IF note_number \in DOMAIN failures_for_prog
                             THEN failures_for_prog[note_number] ELSE 0
    IN  (program_number :> ((note_number :> failures_for_note + 1) @@ failures_for_prog))
        @@ failures

\* mutant: the token is filed under the tick of the note-off
token_tick_AtNoteOff(start_tick, current_tick) == current_tick

\* line 331: the tick under which _process_note_off files the token
token_tick(start_tick, current_tick) == start_tick

\* "{}_{}_{}".format(instrument, note_symbol, duration)
representation_of(instrument, note_symbol, duration) == <<instrument, note_symbol, duration>>

\* mutant: a note of duration zero counts as played
note_was_played_OrZero(duration) == duration >= 0

\* line 310: ensure the note was actually played
note_was_played(duration) == duration > 0

\* mutant: a note-off without a pending note-on forgets every pending note
unmatched_note_off_Clear(st) == [st EXCEPT !.on = EmptyMap]

\* lines 336-337: the else branch of _process_note_off is "pass"
unmatched_note_off(st) == st

\* MidiReader._process_note_off; exc names the exception that escapes, if any
process_note_off(st, note, program_num, current_tick, res) ==
    IF note \in DOMAIN st.on
    THEN LET start_tick == st.on[note][1]
             duration == current_tick - start_tick
         IN  IF note_was_played(duration)
             THEN IF program_name_raises(program_num)
                  THEN [st |-> st, exc |-> "KeyError"]
                  ELSE LET instrument == get_program_name(program_num)
                           rounded == round_to_sixteenth_note(round_duration(instrument, duration, res))
                           note_symbol == get_note_name(note, program_num)
                           text1 == IF note_symbol # None
                                    THEN text_append(st.text, token_tick(start_tick, current_tick),
                                                     representation_of(instrument, note_symbol, rounded))
                                    ELSE st.text
                       IN  [st |-> [st EXCEPT !.text = text1, !.on = map_del(st.on, note)],
                            exc |-> "none"]
             ELSE [st |-> [st EXCEPT !.on = map_del(st.on, note)], exc |-> "none"]
    ELSE [st |-> unmatched_note_off(st), exc |-> "none"]

\* the lookup failures the NoteMapper holds after _process_note_off: line 323
\* reaches get_note_name only for a pending note of positive duration whose
\* program name was found, and get_note_name logs when it returns None
note_off_failures(st, note, program_num, current_tick, failures) ==
    IF /\ note \in DOMAIN st.on
       /\ note_was_played(current_tick - st.on[note][1])
       /\ ~program_name_raises(program_num)
       /\ get_note_name(note, program_num) = None
    THEN log_note_lookup_failure(failures, program_num, note)
    ELSE failures

\* mutant: the drum channel does not override the track's program
program_for_event_NoDrum(event, program) ==
    IF IsNoteEvent(event) /\ program = ProgramNone THEN DEFAULT_PROGRAM ELSE program

\* lines 267-272: the program a note event is played with
program_for_event(event, program) ==
    IF IsNoteEvent(event) /\ event.channel = MIDI_DRUM_CHANNEL THEN DEFAULT_MIDI_PROGRAM_NUM
    ELSE IF IsNoteEvent(event) /\ program = ProgramNone THEN DEFAULT_PROGRAM
    ELSE program

\* mutant: a note-on for a pitch that is already pending is ignored
note_on_KeepFirst(on, event) == on @@ (event.pitch :> <<event.tick, event>>)

\* line 276: self._on_notes[event.pitch] = (event.tick, event)
note_on(on, event) == (event.pitch :> <<event.tick, event>>) @@ on

\* MidiReader._process_midi_event; returns the scratch state, the track's program
\* and the exception that escapes, if any
process_midi_event(st, event, program0, res) ==
    LET program == program_for_event(event, program0)
    IN  IF IsTrueNoteOn(event)
        THEN [st |-> [st EXCEPT !.on = note_on(st.on, event)],
              program |-> program, exc |-> "none"]
        ELSE IF IsNoteOff(event)
        THEN LET r == process_note_off(st, event.pitch, program, event.tick, res)
             IN  [st |-> r.st, program |-> program, exc |-> r.exc]
        ELSE IF event.type = "TimeSignatureEvent"
        THEN [st |-> [st EXCEPT !.ts = od_set(st.ts, event.tick, <<event.numerator, event.denominator>>)],
              program |-> program, exc |-> "none"]
        ELSE IF event.type = "SetTempoEvent"
        THEN [st |-> [st EXCEPT !.bpm = od_set(st.bpm, event.tick, event.bpm)],
              program |-> program, exc |-> "none"]
        ELSE IF event.type = "ProgramChangeEvent"
        THEN [st |-> st, program |-> event.value, exc |-> "none"]
        ELSE [st |-> st, program |-> program, exc |-> "none"]

\* the lookup failures the NoteMapper holds after _process_midi_event
event_failures(st, event, program0, failures) ==
    IF ~IsTrueNoteOn(event) /\ IsNoteOff(event)
    THEN note_off_failures(st, event.pitch, program_for_event(event, program0), event.tick, failures)
    ELSE failures

\* lines 225-229: MIDI defaults when the file set no time signature / tempo
seed_defaults(st) ==
    [st EXCEPT !.ts = IF Len(st.ts) = 0 THEN <<<<0, DEFAULT_MIDI_TIME_SIGNATURE>>>> ELSE st.ts,
               !.bpm = IF Len(st.bpm) = 0 THEN <<<<0, DEFAULT_MIDI_BPM>>>> ELSE st.bpm]

\* MidiReader._create_timestamp_sequence, over sorted(text_sequence.items())
RECURSIVE cts_loop(_, _, _, _)
cts_loop(text_sequence, keys, timing_quantization_ticks, timestamp_sequence) ==
    IF keys = {} THEN timestamp_sequence
    ELSE LET t == SetMin(keys)
             notes == text_sequence[t]
             timestamp == round_down(t, timing_quantization_ticks)
             next == IF Len(notes) > 0
                     THEN IF timestamp \in DOMAIN timestamp_sequence
                          THEN [timestamp_sequence EXCEPT ![timestamp] = @ \o notes]
                          ELSE timestamp_sequence @@ (timestamp :> notes)
                     ELSE timestamp_sequence
         IN  cts_loop(text_sequence, keys \ {t}, timing_quantization_ticks, next)

create_timestamp_sequence(text_sequence, timing_quantization_ticks) ==
    cts_loop(text_sequence, DOMAIN text_sequence, timing_quantization_ticks, EmptyMap)

\* line 114: int(pattern.resolution * self._timing_quantization_ratio)
quantization_ticks(res, ratio) == (res * ratio[1]) \div ratio[2]

\* line 130: range(0, max_timestamp + ticks, ticks), for ticks > 0
grid_range(max_timestamp, ticks) ==
    {i \in 0..(max_timestamp + ticks - 1) : i % ticks = 0}

\* lines 129-132: fill in blank beats
fill_blank_beats(timestamp_sequence, max_timestamp, ticks) ==
    [i \in grid_range(max_timestamp, ticks) \cup DOMAIN timestamp_sequence |->
        IF i \in DOMAIN timestamp_sequence THEN timestamp_sequence[i] ELSE <<REST>>]

(***************************************************************************)
(* Measure / beat derivation, lines 136-192                                *)
(***************************************************************************)
\* lines 159-167: modifier = grid / time_sig.denominator, grid by quantization ratio
grid_of(ratio) ==
    IF ratio = THIRTY_SECOND THEN 32
    ELSE IF ratio = SIXTEENTH THEN 16
    ELSE IF ratio = EIGHTH THEN 8
    ELSE 4

\* lines 170-171: total_beat_units *= 2 on the quarter grid
quarter_factor(ratio) == IF ratio = QUARTER THEN 2 ELSE 1

\* lines 168-171: total_beat_units = index / modifier, as the fraction
\* <<numerator, denominator>> = <<index * denominator * factor, grid>>
total_beat_units(index, time_sig, ratio) ==
    <<index * time_sig[2] * quarter_factor(ratio), grid_of(ratio)>>

\* mutant: a change of signature does not start a new measure
measure_advances_OnOverflowOnly(current_beat, time_sig, prev_time_sig) ==
    current_beat > time_sig[1]

\* line 178: the measure advances
measure_advances(current_beat, time_sig, prev_time_sig) ==
    current_beat > time_sig[1] \/ (prev_time_sig # None /\ prev_time_sig # time_sig)

\* lines 173-182 for one row: the carried (measure, current_beat) and the row's beat
beat_step(index, measure, current_beat, prev_time_sig, time_sig, ratio) ==
    LET tbu == total_beat_units(index, time_sig, ratio)
        is_beat == tbu[1] > 0 /\ tbu[1] % tbu[2] = 0
        cb1 == IF is_beat THEN current_beat + 1 ELSE current_beat
        advance == measure_advances(cb1, time_sig, prev_time_sig)
        cb2 == IF advance THEN 1 ELSE cb1
    IN  [measure |-> IF advance THEN measure + 1 ELSE measure,
         current_beat |-> cb2,
         beat |-> cb2 * BeatUnit + (tbu[1] % tbu[2]) * (BeatUnit \div tbu[2])]

\* the loop of lines 139-192 over sorted(timestamp_sequence.items())
RECURSIVE build_rows(_, _, _, _, _, _, _, _, _)
build_rows(timestamp_sequence, keys, index, measure, current_beat, prev, st, ratio, data_rows) ==
    IF keys = {} THEN data_rows
    ELSE LET timestamp == SetMin(keys)
             time_sig == get_value_at_timestamp(st.ts, timestamp)
             b == beat_step(index, measure, current_beat, prev, time_sig, ratio)
             row == [timestamp |-> timestamp,
                     bpm |-> get_value_at_timestamp(st.bpm, timestamp),
                     time_signature |-> time_sig,
                     measure |-> b.measure,
                     beat |-> b.beat,
                     notes |-> timestamp_sequence[timestamp]]
         IN  build_rows(timestamp_sequence, keys \ {timestamp}, index + 1, b.measure,
                        b.current_beat, time_sig, st, ratio, Append(data_rows, row))

\* the outcome of a call: a returned frame (its rows) or an escaping exception
Returned(rows) == [kind |-> "returned", rows |-> rows, exc |-> "none"]

Raised(exc) == [kind |-> "raised", rows |-> <<>>, exc |-> exc]

NoResult == [kind |-> "none", rows |-> <<>>, exc |-> "none"]

\* line 124: the timestamp ceiling
too_many_timestamps(max_timestamp) == max_timestamp > MAX_TIMESTAMP

\* convert_to_dataframe from line 120 on, given the scratch state left by
\* _extract_text_sequence: the scratch state afterwards and the outcome
convert_tail(st, res, ratio) ==
    LET ticks == quantization_ticks(res, ratio)
        timestamp_sequence == create_timestamp_sequence(st.text, ticks)
    IN  IF DOMAIN st.text = {}
        THEN [st |-> st, result |-> Raised("ValueError")]
        ELSE LET max_timestamp == SetMax(DOMAIN st.text)
             IN  IF too_many_timestamps(max_timestamp)
                 THEN [st |-> reset_intermediary_variables(st), result |-> Returned(<<>>)]
                 ELSE IF ticks = 0
                 THEN [st |-> st, result |-> Raised("ValueError")]
                 ELSE LET filled == fill_blank_beats(timestamp_sequence, max_timestamp, ticks)
                          rows == build_rows(filled, DOMAIN filled, 0, 1, 1, None, st, ratio, <<>>)
                      IN  [st |-> reset_intermediary_variables(st), result |-> Returned(rows)]

(***************************************************************************)
(* MidiWriter (midi_writer.py)                                             *)
(*   A note word is the sequence of its "_"-separated fields               *)
(*   <<program name, note name, duration>>.  The writer state is a record  *)
(*     names  : _prog_names_by_track_num   tracks : _midi_tracks_by_track_num *)
(*     prev   : _prev_timestamps_by_track_num                              *)
(*     events : midi_events_by_timestamp   pattern : tracks of the pattern *)
(*   A scheduled event carries the row and word it came from (id) beside   *)
(*   the MIDI event itself.                                                *)
(***************************************************************************)
PERCUSSION_CHANNEL == 9
DEFAULT_MIDI_RESOLUTION == 120
\* line 188: range(0, 16)
TRACK_LIMIT == 16
\* line 97: velocity of the note-on events written
WRITE_VELOCITY == 127

\* mappings["text-to-midi"]: program name -> program number
InstrumentNames ==
    <<"piano", "guitar", "bass", "organ", "flute", "oboe", "horn", "harp", "viola",
      "cello", "tuba", "sitar", "koto", "fife", "lute", "reed", "bell">>

TextToMidi == [name \in {InstrumentNames[i] : i \in 1..Len(InstrumentNames)} |->
                 IF name = "piano" THEN 1
                 ELSE IF name = "guitar" THEN 30
                 ELSE 40 + (CHOOSE i \in 1..Len(InstrumentNames) : InstrumentNames[i] = name)]

\* NoteMapper.get_program_number; a missing key raises KeyError
program_number_raises(program_name) ==
    program_name # PERCUSSION /\ program_name \notin DOMAIN TextToMidi

get_program_number(program_name) ==
    IF program_name # PERCUSSION THEN TextToMidi[program_name] ELSE -1

\* NoteMapper.get_note_number: self._notes first, then the drum names, else -1
get_note_number(note_name) ==
    IF \E n \in DOMAIN notes_table : notes_table[n] = note_name
    THEN SetMin({n \in DOMAIN notes_table : notes_table[n] = note_name})
    ELSE IF \E n \in DOMAIN MidiToTextPercussion : MidiToTextPercussion[n] = note_name
    THEN SetMin({n \in DOMAIN MidiToTextPercussion : MidiToTextPercussion[n] = note_name})
    ELSE -1

\* Python int() of the fraction num/den: truncation towards zero
py_int(num, den) == IF num >= 0 THEN num \div den ELSE -((-num) \div den)

EmptyWriter == [names |-> EmptyMap, tracks |-> EmptyMap, prev |-> EmptyMap,
                events |-> EmptyMap, pattern |-> <<>>]

\* the id of the events _add_track itself puts on a track
NoWord == <<-1, 0>>

EndOfTrackEvent == [id |-> NoWord, event |-> [type |-> "EndOfTrackEvent", tick |-> 1]]

\* MidiWriter._add_track, the program number being known
add_track(ws, track_index, program_name, int_bpm) ==
    LET track == IF program_name = PERCUSSION
                 THEN <<[id |-> NoWord, event |-> SetTempoEvent(0, int_bpm)],
                        [id |-> NoWord,
                         event |-> [type |-> "ProgramChangeEvent", tick |-> 0,
                                    channel |-> PERCUSSION_CHANNEL, value |-> 0]]>>
                 ELSE <<[id |-> NoWord,
                         event |-> [type |-> "ProgramChangeEvent", tick |-> 0, channel |-> 0,
                                    value |-> get_program_number(program_name)]]>>
    IN  [ws EXCEPT !.pattern = Append(@, track_index),
                   !.tracks = (track_index :> track) @@ @,
                   !.prev = (track_index :> 0) @@ @]

\* mutant: the next track number is the number of instruments assigned so far
get_next_unused_track_Count(tracks) ==
    IF Cardinality(DOMAIN tracks) < TRACK_LIMIT THEN Cardinality(DOMAIN tracks) - 1 ELSE -1

\* MidiWriter._get_next_unused_track
get_next_unused_track(tracks) ==
    IF \E track_index \in 0..(TRACK_LIMIT - 1) : track_index \notin DOMAIN tracks
    THEN SetMin({track_index \in 0..(TRACK_LIMIT - 1) : track_index \notin DOMAIN tracks})
    ELSE -1

program_names_in_use(ws) == {ws.names[k] : k \in DOMAIN ws.names}

\* MidiWriter._get_midi_track: None, or the tuple (track number, track)
get_midi_track(ws, program_name) ==
    IF program_name \notin program_names_in_use(ws) THEN None
    ELSE LET track_num == SetMin({k \in DOMAIN ws.names : ws.names[k] = program_name})
         IN  <<track_num, ws.tracks[track_num]>>

\* line 68: int(index * (self._resolution / 4))
current_timestamp(index, res) == py_int(index * res, 4)

\* mutant: the note-off is scheduled from tick 0
off_timestamp_FromZero(timestamp, note_duration, res) == py_int(note_duration * res, DurUnit)

\* line 107: current_timestamp + int(float(note_duration) * self._resolution)
off_timestamp(timestamp, note_duration, res) ==
    timestamp + py_int(note_duration * res, DurUnit)

\* lines 98-103 and 108-113: append an event to the list kept for a timestamp
schedule(events, timestamp, event) ==
    IF timestamp \in DOMAIN events
    THEN [events EXCEPT ![timestamp] = Append(@, event)]
    ELSE (timestamp :> <<event>>) @@ events

\* lines 76-113 for one note word that is not the rest; exc names the exception
\* that escapes, if any
write_note_word(ws, index, word_no, fields, int_bpm, res) ==
    LET program_name == fields[1]
        note_name == fields[2]
        note_duration == fields[3]
        is_new == program_name \notin program_names_in_use(ws)
        program_index == get_next_unused_track(ws.names)
        ws1 == IF is_new /\ program_index >= 0
               THEN [ws EXCEPT !.names = (program_index :> program_name) @@ @]
               ELSE ws
        add_raises == is_new /\ program_index >= 0 /\ program_number_raises(program_name)
    IN  IF add_raises THEN [ws |-> ws1, exc |-> "KeyError"]
        ELSE LET ws2 == IF is_new /\ program_index >= 0
                        THEN add_track(ws1, program_index, program_name, int_bpm)
                        ELSE ws1
                 found == get_midi_track(ws2, program_name)
             IN  IF found = None
                 \* line 92 unpacks the None that _get_midi_track returned
                 THEN [ws |-> ws2, exc |-> "TypeError"]
                 ELSE LET track_num == found[1]
                          key == get_note_number(note_name)
                          timestamp == current_timestamp(index, res)
                          on_event == [id |-> <<index, word_no>>,
                                       event |-> NoteOnEvent(0, track_num, key, WRITE_VELOCITY)]
                          off_event == [id |-> <<index, word_no>>,
                                        event |-> NoteOffEvent(0, track_num, key)]
                          events1 == schedule(ws2.events, timestamp, on_event)
                          events2 == schedule(events1, off_timestamp(timestamp, note_duration, res),
                                              off_event)
                      IN  [ws |-> [ws2 EXCEPT !.events = events2], exc |-> "none"]

\* lines 72-113: the note words of one row, in order, up to the first exception
RECURSIVE write_note_words(_, _, _, _, _, _)
write_note_words(ws, index, word_no, note_words, int_bpm, res) ==
    IF word_no > Len(note_words) THEN [ws |-> ws, exc |-> "none"]
    ELSE IF note_words[word_no] = REST
    THEN write_note_words(ws, index, word_no + 1, note_words, int_bpm, res)
    ELSE LET r == write_note_word(ws, index, word_no, note_words[word_no], int_bpm, res)
         IN  IF r.exc # "none" THEN r
             ELSE write_note_words(r.ws, index, word_no + 1, note_words, int_bpm, res)

\* mutant: the absolute timestamp is stored as the delta
delta_tick_Absolute(timestamp, prev_timestamp) == timestamp

\* line 121: delta = timestamp - prev_timestamp
delta_tick(timestamp, prev_timestamp) == timestamp - prev_timestamp

\* lines 118-125: the events of one timestamp go to their tracks
RECURSIVE append_events(_, _, _)
append_events(ws, events, timestamp) ==
    IF events = <<>> THEN ws
    ELSE LET e == Head(events)
             track_num == e.event.channel
             delta == delta_tick(timestamp, ws.prev[track_num])
         IN  append_events([ws EXCEPT !.tracks[track_num] = Append(@, [e EXCEPT !.event.tick = delta]),
                                      !.prev[track_num] = timestamp],
                           Tail(events), timestamp)

\* lines 116-117: for timestamp in sorted(midi_events_by_timestamp)
RECURSIVE add_events(_, _)
add_events(ws, timestamps) ==
    IF timestamps = {} THEN ws
    ELSE LET timestamp == SetMin(timestamps)
         IN  add_events(append_events(ws, ws.events[timestamp], timestamp),
                        timestamps \ {timestamp})

\* lines 128-129: End-of-track event on every track
add_end_of_track(ws) ==
    [ws EXCEPT !.tracks = [k \in DOMAIN ws.tracks |-> Append(ws.tracks[k], EndOfTrackEvent)]]

\* the frame handed to convert_to_midi: its number of rows, its 'bpm' column
\* (empty when the frame has no such column) and the rows of its 'notes' column
\* that iterrows() has yielded so far
Frame(rows, bpm_column) == [len |-> rows, bpm |-> bpm_column, notes |-> <<>>]

RECURSIVE column_sum(_)
column_sum(column) == IF column = <<>> THEN 0 ELSE Head(column) + column_sum(Tail(column))

\* lines 54-55: the mean of the bpm column, or the default
mean_bpm(frame) ==
    IF frame.bpm # <<>> THEN <<column_sum(frame.bpm), Len(frame.bpm)>>
    ELSE <<DEFAULT_MIDI_BPM, 1>>

\* outcome of a convert_to_midi call
Written == [kind |-> "written", exc |-> "none"]

WriteRaised(exc) == [kind |-> "raised", exc |-> exc]

NoWrite == [kind |-> "none", exc |-> "none"]

(***************************************************************************)
(* State                                                                   *)
(***************************************************************************)
VARIABLES
    pc,                             \* "idle" between calls, "extracting" inside _extract_text_sequence
    resolution,                     \* self._resolution
    timing_quantization_ratio,      \* self._timing_quantization_ratio
    time_signature_by_timestamp,    \* self._time_signature_by_timestamp
    bpm_by_timestamp,               \* self._bpm_by_timestamp
    text_sequence,                  \* self._text_sequence
    on_notes,                       \* self._on_notes
    current_program,                \* local of _extract_text_sequence
    note_lookup_failures,           \* self._note_mapper._note_lookup_failures
    result,                         \* outcome of the last convert_to_dataframe call
    track_no,                       \* tracks of the pattern entered so far in this call
    ev_count,                       \* events processed so far by this instance
    last_tick,                      \* absolute tick of the last event of the current track
    calls,                          \* convert_to_dataframe calls started on this instance
    load_error,                     \* history: what midi.read_midifile raised in the last call
    closed,                         \* history: the note-on/note-off pair the last event closed
    on_origin,                      \* history: where each pending note-on came from
    consumed                        \* history: the scratch state the last call reached line 120 with

VARIABLES
    w_pc,                           \* "idle" between calls, "rows" inside the row loop of convert_to_midi
    dataframe,                      \* the frame handed to convert_to_midi
    row_index,                      \* rows of the frame iterated so far (index of the next row)
    bpm,                            \* self._bpm, as <<sum, count>> of the averaged column
    prog_names_by_track_num,        \* self._prog_names_by_track_num
    midi_tracks_by_track_num,       \* self._midi_tracks_by_track_num
    prev_timestamps_by_track_num,   \* self._prev_timestamps_by_track_num
    midi_events_by_timestamp,       \* local of convert_to_midi
    pattern,                        \* the tracks of the pattern, by track number, in append order
    w_result                        \* outcome of the last convert_to_midi call

writer_vars == <<w_pc, dataframe, row_index, bpm, prog_names_by_track_num,
                 midi_tracks_by_track_num, prev_timestamps_by_track_num,
                 midi_events_by_timestamp, pattern, w_result>>

VARIABLES
    call_args,                      \* the arguments of the helper called on its own
    call_ret                        \* the values the helper has returned, in order

call_vars == <<call_args, call_ret>>

NoCall == [fn |-> "none"]

reader_vars == <<pc, resolution, timing_quantization_ratio, time_signature_by_timestamp,
                 bpm_by_timestamp, text_sequence, on_notes, current_program,
                 note_lookup_failures, result, track_no, ev_count, last_tick, calls,
                 load_error, closed, on_origin, consumed>>

vars == <<reader_vars, writer_vars, call_vars>>

Scratch == [ts |-> time_signature_by_timestamp, bpm |-> bpm_by_timestamp,
            text |-> text_sequence, on |-> on_notes]

SetScratch(st) ==
    /\ time_signature_by_timestamp' = st.ts
    /\ bpm_by_timestamp' = st.bpm
    /\ text_sequence' = st.text
    /\ on_notes' = st.on

NoPair == [none |-> TRUE]

\* history: the origins of the note-ons still pending in on
origins_kept(on) == [p \in (DOMAIN on) \cap (DOMAIN on_origin) |-> on_origin[p]]

\* history: the call, track and tick a note-on arrives at, and the tick of the pending
\* note-on of the same pitch it replaces (-1 when none was pending)
origin_of(event) ==
    [call |-> calls, track |-> track_no, tick |-> event.tick,
     replaced |-> IF event.pitch \in DOMAIN on_notes THEN on_notes[event.pitch][1] ELSE -1]

origins_after(event, on) ==
    IF IsTrueNoteOn(event)
    THEN (event.pitch :> origin_of(event)) @@ origins_kept(on)
    ELSE origins_kept(on)

NotConsumed == EmptyScratch

(***************************************************************************)
(* Inputs                                                                  *)
(***************************************************************************)
\* pattern.resolution of the files read
Resolutions == {2, 4, 8}

\* the ways midi.read_midifile fails: the two kinds line 103 names, and any other
LoadFailures == {"TypeError", "RuntimeWarning", "IOError"}

Pitches == {36, 60}
Channels == {0, MIDI_DRUM_CHANNEL}
Velocities == {0, 100}
Programs == {30, 99}
TimeSignatures == {<<3, 4>>}
Tempos == {90}

Ticks == 0..MaxTick

EventsAt(t) ==
    {NoteOnEvent(t, c, p, v) : c \in Channels, p \in Pitches, v \in Velocities}
    \cup {NoteOffEvent(t, c, p) : c \in Channels, p \in Pitches}
    \cup {TimeSignatureEvent(t, s[1], s[2]) : s \in TimeSignatures}
    \cup {SetTempoEvent(t, b) : b \in Tempos}
    \cup {ProgramChangeEvent(t, v) : v \in Programs}
    \cup {ControlChangeEvent(t)}

Events == UNION {EventsAt(t) : t \in Ticks}

(***************************************************************************)
(* Init: a MidiReader as __init__ leaves it                                *)
(***************************************************************************)
InitWith(ratios) ==
    /\ pc = "idle"
    /\ resolution = DEFAULT_RESOLUTION
    /\ timing_quantization_ratio \in ratios
    /\ time_signature_by_timestamp = <<>>
    /\ bpm_by_timestamp = <<>>
    /\ text_sequence = EmptyMap
    /\ on_notes = EmptyMap
    /\ current_program = ProgramNone
    /\ note_lookup_failures = EmptyMap
    /\ result = NoResult
    /\ track_no = 0
    /\ ev_count = 0
    /\ last_tick = 0
    /\ calls = 0
    /\ load_error = "none"
    /\ closed = NoPair
    /\ on_origin = EmptyMap
    /\ consumed = NotConsumed

\* a MidiWriter as __init__ leaves it
InitWriter ==
    /\ w_pc = "idle"
    /\ dataframe = Frame(0, <<>>)
    /\ row_index = 0
    /\ bpm = <<DEFAULT_MIDI_BPM, 1>>
    /\ prog_names_by_track_num = EmptyMap
    /\ midi_tracks_by_track_num = EmptyMap
    /\ prev_timestamps_by_track_num = EmptyMap
    /\ midi_events_by_timestamp = EmptyMap
    /\ pattern = <<>>
    /\ w_result = NoWrite

\* no helper is called on its own
InitCall(Calls) ==
    /\ call_args \in Calls
    /\ call_ret = <<>>

Init == InitWith({DEFAULT_TIMING_QUANTIZATION}) /\ InitWriter /\ InitCall({NoCall})

(***************************************************************************)
(* convert_to_dataframe, lines 101-106: midi.read_midifile raises          *)
(***************************************************************************)
\* the except clause of line 103
load_failure_handled(kind) == kind \in {"TypeError", "RuntimeWarning"}

LoadFails ==
    /\ pc = "idle"
    /\ calls < MaxCalls
    /\ \E kind \in LoadFailures :
          /\ load_error' = kind
          /\ IF load_failure_handled(kind)
             THEN /\ SetScratch(reset_intermediary_variables(Scratch))
                  /\ result' = Returned(<<>>)
                  /\ on_origin' = EmptyMap
             ELSE /\ SetScratch(Scratch)
                  /\ result' = Raised(kind)
                  /\ on_origin' = on_origin
    /\ calls' = calls + 1
    /\ track_no' = 0
    /\ last_tick' = 0
    /\ closed' = NoPair
    /\ consumed' = NotConsumed
    /\ UNCHANGED <<pc, resolution, timing_quantization_ratio, current_program, ev_count,
                   note_lookup_failures>>
    /\ UNCHANGED <<writer_vars, call_vars>>

(***************************************************************************)
(* convert_to_dataframe, lines 102-114: the file loads                     *)
(***************************************************************************)
LoadOk(ResSet) ==
    /\ pc = "idle"
    /\ calls < MaxCalls
    /\ \E r \in ResSet : resolution' = r
    /\ pc' = "extracting"
    /\ calls' = calls + 1
    /\ result' = NoResult
    /\ track_no' = 0
    /\ last_tick' = 0
    /\ load_error' = "none"
    /\ closed' = NoPair
    /\ consumed' = NotConsumed
    /\ UNCHANGED <<timing_quantization_ratio, time_signature_by_timestamp, bpm_by_timestamp,
                   text_sequence, on_notes, current_program, ev_count, note_lookup_failures,
                   on_origin>>
    /\ UNCHANGED <<writer_vars, call_vars>>

(***************************************************************************)
(* _extract_text_sequence, lines 214-218: the next track begins            *)
(***************************************************************************)
BeginTrack ==
    /\ pc = "extracting"
    /\ track_no < MaxTracks
    /\ track_no' = track_no + 1
    /\ current_program' = ProgramNone
    /\ last_tick' = 0
    /\ closed' = NoPair
    /\ UNCHANGED <<pc, resolution, timing_quantization_ratio, time_signature_by_timestamp,
                   bpm_by_timestamp, text_sequence, on_notes, result, ev_count, calls,
                   load_error, consumed, note_lookup_failures, on_origin>>
    /\ UNCHANGED <<writer_vars, call_vars>>

(***************************************************************************)
(* _extract_text_sequence, lines 221-223: one event of the current track   *)
(***************************************************************************)
\* history: the entries <<tick, position, token>> that new holds beyond old
tokens_added(old, new) ==
    UNION {{<<t, i, new[t][i]>> : i \in {j \in 1..Len(new[t]) : t \notin DOMAIN old \/ j > Len(old[t])}}
           : t \in DOMAIN new}

\* history: the pending note-on a note-off event closes and the tokens the step adds
pair_closed(event, program, new_text) ==
    IF IsNoteOff(event) /\ event.pitch \in DOMAIN on_notes
    THEN [on |-> on_notes[event.pitch][2], off |-> event, program |-> program,
          track |-> track_no, added |-> tokens_added(text_sequence, new_text),
          failures |-> note_lookup_failures, origin |-> on_origin[event.pitch]]
    ELSE NoPair

ProcessOne(event, limit) ==
    /\ pc = "extracting"
    /\ track_no >= 1
    /\ ev_count < limit
    /\ event.tick >= last_tick
    /\ LET r == process_midi_event(Scratch, event, current_program, resolution)
       IN  /\ SetScratch(r.st)
           /\ closed' = pair_closed(event, current_program, r.st.text)
           /\ on_origin' = origins_after(event, r.st.on)
           /\ IF r.exc = "none"
              THEN /\ pc' = "extracting"
                   /\ result' = result
                   /\ current_program' = r.program
              ELSE /\ pc' = "idle"
                   /\ result' = Raised(r.exc)
                   /\ current_program' = ProgramNone
    /\ note_lookup_failures' = event_failures(Scratch, event, current_program, note_lookup_failures)
    /\ last_tick' = event.tick
    /\ ev_count' = ev_count + 1
    /\ UNCHANGED <<resolution, timing_quantization_ratio, track_no, calls, load_error, consumed>>
    /\ UNCHANGED <<writer_vars, call_vars>>

ProcessEvent(EventSet, limit) == \E event \in EventSet : ProcessOne(event, limit)

(***************************************************************************)
(* convert_to_dataframe, lines 225-229 and 120-203: all tracks are done    *)
(***************************************************************************)
Finish ==
    /\ pc = "extracting"
    /\ LET st == seed_defaults(Scratch)
           r == convert_tail(st, resolution, timing_quantization_ratio)
       IN  /\ SetScratch(r.st)
           /\ result' = r.result
           /\ consumed' = st
           /\ on_origin' = origins_kept(r.st.on)
    /\ pc' = "idle"
    /\ current_program' = ProgramNone
    /\ closed' = NoPair
    /\ UNCHANGED <<resolution, timing_quantization_ratio, track_no, ev_count, last_tick,
                   calls, load_error, note_lookup_failures>>
    /\ UNCHANGED <<writer_vars, call_vars>>

Next ==
    \/ LoadFails
    \/ LoadOk(Resolutions)
    \/ BeginTrack
    \/ ProcessEvent(Events, MaxEvents)
    \/ Finish

Spec == Init /\ [][Next]_vars

(***************************************************************************)
(* SpecNotes: files of plain notes on one melodic channel, long enough for *)
(* two notes to share a grid step                                          *)
(***************************************************************************)
NoteEvents ==
    UNION {{NoteOnEvent(t, 0, p, 100) : p \in Pitches} \cup {NoteOffEvent(t, 0, p) : p \in Pitches}
           : t \in Ticks}

NextNotes ==
    \/ LoadOk(Resolutions)
    \/ BeginTrack
    \/ ProcessEvent(NoteEvents, MaxNoteEvents)
    \/ Finish

SpecNotes == Init /\ [][NextNotes]_vars

(***************************************************************************)
(* SpecLimit: files whose notes start beyond the timestamp ceiling         *)
(***************************************************************************)
LimitTicks == {0, 1, MAX_TIMESTAMP + 1, MAX_TIMESTAMP + 2}

LimitEvents ==
    UNION {{NoteOnEvent(t, 0, 60, 100), NoteOffEvent(t, 0, 60)} : t \in LimitTicks}

NextLimit ==
    \/ LoadOk({4, 8})
    \/ BeginTrack
    \/ ProcessEvent(LimitEvents, MaxNoteEvents)
    \/ Finish

SpecLimit == Init /\ [][NextLimit]_vars

(***************************************************************************)
(* SpecMeter: one note under one time signature, on each timing grid, long *)
(* enough for the rows to span measures                                    *)
(***************************************************************************)
MeterNumerators == {2, 3, 4}
MeterDenominators == {1, 2, 4, 8, 16}

MeterEvents ==
    {TimeSignatureEvent(0, n, d) : n \in MeterNumerators, d \in MeterDenominators}
    \cup {NoteOnEvent(t, 0, 60, 100) : t \in 0..MeterMaxTick}
    \cup {NoteOffEvent(MeterMaxTick + 1, 0, 60)}

InitMeter == InitWith(NoteLength) /\ InitWriter /\ InitCall({NoCall})

NextMeter ==
    \/ LoadOk({8})
    \/ BeginTrack
    \/ ProcessEvent(MeterEvents, MaxEvents)
    \/ Finish

SpecMeter == InitMeter /\ [][NextMeter]_vars

(***************************************************************************)
(* SpecTimeline: tempo and time-signature events spread over the tracks of *)
(* a file with one note, on the sixteenth grid with one tick per row       *)
(***************************************************************************)
TimelineSignatures == {<<2, 16>>, <<3, 16>>, <<2, 8>>}
TimelineTempos == {90, 100}
TimelineNoteTick == 2 * MaxTimelineTick

TimelineEvents ==
    {TimeSignatureEvent(t, s[1], s[2]) : t \in 0..MaxTimelineTick, s \in TimelineSignatures}
    \cup {SetTempoEvent(t, b) : t \in 0..MaxTimelineTick, b \in TimelineTempos}
    \cup {NoteOnEvent(TimelineNoteTick, 0, 60, 100), NoteOffEvent(TimelineNoteTick + 1, 0, 60)}

NextTimeline ==
    \/ LoadOk({4})
    \/ BeginTrack
    \/ ProcessEvent(TimelineEvents, MaxNoteEvents)
    \/ Finish

SpecTimeline == Init /\ [][NextTimeline]_vars

(***************************************************************************)
(* SpecLookup: _get_value_at_timestamp called on timelines of up to three  *)
(* entries, in and out of tick order                                       *)
(***************************************************************************)
LookupValues == {90, 100, 120}

LookupTimelines ==
    UNION {{od \in [1..n -> (0..(MaxLookupTick - 1)) \X LookupValues] :
               \A i, j \in 1..n : i # j => od[i][1] # od[j][1]}
           : n \in 1..3}

LookupCalls ==
    {[fn |-> "get_value_at_timestamp", values |-> od, timestamp |-> t] :
        od \in LookupTimelines, t \in 0..MaxLookupTick}

GetValueAtTimestamp ==
    /\ call_args.fn = "get_value_at_timestamp"
    /\ call_ret = <<>>
    /\ call_ret' = <<get_value_at_timestamp(call_args.values, call_args.timestamp)>>
    /\ UNCHANGED <<call_args, reader_vars, writer_vars>>

InitLookup == InitWith({DEFAULT_TIMING_QUANTIZATION}) /\ InitWriter /\ InitCall(LookupCalls)

SpecLookup == InitLookup /\ [][GetValueAtTimestamp]_vars

(***************************************************************************)
(* SpecDuration: the duration quantization of _process_note_off applied to *)
(* a raw duration of ticks/res quarter notes and then to its own result    *)
(***************************************************************************)
DurationInstruments == {"piano", PERCUSSION, "bass", "guitar"}

DurationCalls ==
    {[fn |-> "quantize_duration", instrument |-> p, ticks |-> t, res |-> r] :
        p \in DurationInstruments, t \in 1..MaxDurationTicks, r \in {4, 8}}

QuantizeDuration ==
    /\ call_args.fn = "quantize_duration"
    /\ Len(call_ret) < 2
    /\ call_ret' = Append(call_ret,
                          IF call_ret = <<>>
                          THEN quantize_duration(call_args.instrument, call_args.ticks, call_args.res)
                          ELSE quantize_duration(call_args.instrument, call_ret[Len(call_ret)], DurUnit))
    /\ UNCHANGED <<call_args, reader_vars, writer_vars>>

InitDuration == InitWith({DEFAULT_TIMING_QUANTIZATION}) /\ InitWriter /\ InitCall(DurationCalls)

SpecDuration == InitDuration /\ [][QuantizeDuration]_vars

(***************************************************************************)
(* MidiWriter: state and operations                                        *)
(***************************************************************************)
WriterState == [names |-> prog_names_by_track_num, tracks |-> midi_tracks_by_track_num,
                prev |-> prev_timestamps_by_track_num, events |-> midi_events_by_timestamp,
                pattern |-> pattern]

SetWriterState(ws) ==
    /\ prog_names_by_track_num' = ws.names
    /\ midi_tracks_by_track_num' = ws.tracks
    /\ prev_timestamps_by_track_num' = ws.prev
    /\ midi_events_by_timestamp' = ws.events
    /\ pattern' = ws.pattern

\* the bpm column of a frame of n rows: absent, or 90, 121, 152, ...
BpmColumns(n) == {<<>>} \cup (IF n = 0 THEN {} ELSE {[i \in 1..n |-> 90 + 31 * (i - 1)]})

Frames == UNION {{Frame(n, bpm_column) : bpm_column \in BpmColumns(n)} : n \in 0..MaxRows}

\* convert_to_midi, lines 42-59, called with the given frame: reset, output
\* tempo, the drum track
WriteFrame(frame) ==
    /\ w_pc = "idle"
    /\ dataframe' = frame
    /\ bpm' = mean_bpm(frame)
    /\ LET int_bpm == py_int(mean_bpm(frame)[1], mean_bpm(frame)[2])
           ws == add_track(EmptyWriter, PERCUSSION_CHANNEL, PERCUSSION, int_bpm)
       IN  SetWriterState([ws EXCEPT !.names = (PERCUSSION_CHANNEL :> PERCUSSION) @@ @])
    /\ w_pc' = "rows"
    /\ row_index' = 0
    /\ w_result' = NoWrite
    /\ UNCHANGED <<reader_vars, call_vars>>

WriterBegin == \E frame \in Frames : WriteFrame(frame)

\* convert_to_midi, lines 63-113: the next row of the frame
WriteOneRow(note_words) ==
    /\ w_pc = "rows"
    /\ row_index < dataframe.len
    /\ dataframe' = [dataframe EXCEPT !.notes = Append(@, note_words)]
    /\ LET r == write_note_words(WriterState, row_index, 1, note_words,
                                 py_int(bpm[1], bpm[2]), DEFAULT_MIDI_RESOLUTION)
       IN  /\ SetWriterState(r.ws)
           /\ IF r.exc = "none"
              THEN /\ w_pc' = "rows"
                   /\ row_index' = row_index + 1
                   /\ w_result' = w_result
              ELSE /\ w_pc' = "idle"
                   /\ row_index' = row_index
                   /\ w_result' = WriteRaised(r.exc)
    /\ UNCHANGED bpm
    /\ UNCHANGED <<reader_vars, call_vars>>

WriteRow(Rows) == \E note_words \in Rows : WriteOneRow(note_words)

\* convert_to_midi, lines 115-132: the scheduled events go to their tracks
WriteEvents ==
    /\ w_pc = "rows"
    /\ row_index = dataframe.len
    /\ SetWriterState(add_end_of_track(add_events(WriterState, DOMAIN midi_events_by_timestamp)))
    /\ w_pc' = "idle"
    /\ w_result' = Written
    /\ UNCHANGED <<dataframe, bpm, row_index>>
    /\ UNCHANGED <<reader_vars, call_vars>>

(***************************************************************************)
(* SpecWriter: frames of up to MaxRows rows whose notes outlast later rows *)
(***************************************************************************)
WriterDurations == {16, 40}

WriterWords ==
    {<<"piano", <<"c", 4>>, d>> : d \in WriterDurations}
    \cup {<<"guitar", <<"e", 4>>, d>> : d \in WriterDurations}
    \cup {<<PERCUSSION, <<"kick">>, d>> : d \in WriterDurations}
    \cup {<<"banjo", <<"c", 4>>, d>> : d \in WriterDurations}

WriterRows ==
    {<<REST>>}
    \cup {<<w>> : w \in WriterWords}
    \cup {<<<<"piano", <<"c", 4>>, 16>>, <<"guitar", <<"e", 4>>, 40>>>>,
          <<<<"piano", <<"c", 4>>, 16>>, <<"piano", <<"c", 4>>, 16>>>>}


NextWriter ==
    \/ WriterBegin
    \/ WriteRow(WriterRows)
    \/ WriteEvents

SpecWriter == Init /\ [][NextWriter]_vars

(***************************************************************************)
(* SpecChannels: frames that name more instruments than there are channels *)
(***************************************************************************)
ChannelWord(i) == <<InstrumentNames[i], <<"c", 4>>, 16>>

ChannelRows ==
    {[i \in 1..8 |-> ChannelWord(i)],
     [i \in 1..7 |-> ChannelWord(i + 8)],
     <<ChannelWord(16), ChannelWord(1)>>,
     <<ChannelWord(17)>>,
     <<ChannelWord(1)>>}

NextChannels ==
    \/ WriterBegin
    \/ WriteRow(ChannelRows)
    \/ WriteEvents

SpecChannels == Init /\ [][NextChannels]_vars

(***************************************************************************)
(* SpecRoundTrip: a file is read on the sixteenth grid, the rows returned  *)
(* are written by convert_to_midi, and the tracks written are read again   *)
(***************************************************************************)
\* files of piano notes (channel 0, no program change) and drum notes
RoundTripEvents ==
    UNION {{NoteOnEvent(t, 0, 60, 100), NoteOffEvent(t, 0, 60),
            NoteOnEvent(t, MIDI_DRUM_CHANNEL, 36, 100), NoteOffEvent(t, MIDI_DRUM_CHANNEL, 36)}
           : t \in Ticks}

\* no frame has been handed to the writer yet
NothingWritten == w_pc = "idle" /\ w_result = NoWrite

\* the frame convert_to_dataframe returned, as convert_to_midi receives it
ReaderFrame ==
    Frame(Len(result.rows), [i \in 1..Len(result.rows) |-> result.rows[i].bpm])

\* convert_to_midi is called with the frame the reader returned
WriteReaderFrame ==
    /\ NothingWritten
    /\ pc = "idle"
    /\ result.kind = "returned"
    /\ Len(result.rows) >= 1
    /\ WriteFrame(ReaderFrame)

\* the next row of that frame
WriteReaderRow ==
    /\ w_pc = "rows"
    /\ row_index < dataframe.len
    /\ WriteOneRow(result.rows[row_index + 1].notes)

\* pattern.make_ticks_abs() (line 108) on one track: delta ticks become absolute
RECURSIVE ticks_abs(_, _, _)
ticks_abs(track, i, running) ==
    IF i > Len(track) THEN <<>>
    ELSE <<[track[i].event EXCEPT !.tick = running + @]>>
         \o ticks_abs(track, i + 1, running + track[i].event.tick)

make_ticks_abs(track) == ticks_abs(track, 1, 0)

\* _extract_text_sequence, lines 221-223: the events of one track from the i-th on
RECURSIVE extract_events(_, _, _, _, _)
extract_events(st, program, events, i, res) ==
    IF i > Len(events) THEN [st |-> st, exc |-> "none"]
    ELSE LET r == process_midi_event(st, events[i], program, res)
         IN  IF r.exc # "none" THEN [st |-> r.st, exc |-> r.exc]
             ELSE extract_events(r.st, r.program, events, i + 1, res)

\* _extract_text_sequence, lines 214-229: the tracks of a pattern from the k-th on
RECURSIVE extract_text_sequence(_, _, _, _)
extract_text_sequence(st, tracks, k, res) ==
    IF k > Len(tracks) THEN [st |-> seed_defaults(st), exc |-> "none"]
    ELSE LET r == extract_events(st, ProgramNone, make_ticks_abs(tracks[k]), 1, res)
         IN  IF r.exc # "none" THEN r
             ELSE extract_text_sequence(r.st, tracks, k + 1, res)

\* convert_to_dataframe of a freshly constructed MidiReader on a pattern that loads
convert_to_dataframe(tracks, res, ratio) ==
    LET r == extract_text_sequence(EmptyScratch, tracks, 1, res)
    IN  IF r.exc # "none" THEN Raised(r.exc)
        ELSE convert_tail(r.st, res, ratio).result

\* the tracks of the pattern convert_to_midi wrote, in the order it appended them
written_tracks == [i \in 1..Len(pattern) |-> midi_tracks_by_track_num[pattern[i]]]

NextRoundTrip ==
    \/ (NothingWritten /\ LoadOk({4}))
    \/ BeginTrack
    \/ ProcessEvent(RoundTripEvents, MaxNoteEvents)
    \/ Finish
    \/ WriteReaderFrame
    \/ WriteReaderRow
    \/ WriteEvents

SpecRoundTrip == Init /\ [][NextRoundTrip]_vars

(***************************************************************************)
(* Properties                                                              *)
(***************************************************************************)
\* the last call ran its extraction to the end (reached line 120)
Converted == pc = "idle" /\ consumed.ts # <<>>

\* S: the timing-quantization step of the last call, in ticks
StepTicks == quantization_ticks(resolution, timing_quantization_ratio)

\* the ticks under which the last call recorded tokens
TokenTicks == DOMAIN consumed.text

\* C1: for every input that yields at least one note token the returned rows
\* have ticks exactly 0, S, 2S, ..., K*S in row order, K*S being the largest
\* token start tick rounded up to a multiple of S, and the result is non-empty.
CE_C1 ==
    (Converted /\ TokenTicks # {}) =>
        /\ result.kind = "returned"
        /\ Len(result.rows) >= 1
        /\ \A i \in 1..Len(result.rows) : result.rows[i].timestamp = (i - 1) * StepTicks
        /\ (Len(result.rows) - 1) * StepTicks >= SetMax(TokenTicks)
        /\ (Len(result.rows) - 1) * StepTicks < SetMax(TokenTicks) + StepTicks

\* the tokens recorded under the ticks of the grid step that starts at tick T,
\* in ascending source-tick order
RECURSIVE tokens_from(_, _)
tokens_from(text, ticks) ==
    IF ticks = {} THEN <<>>
    ELSE LET t == SetMin(ticks) IN text[t] \o tokens_from(text, ticks \ {t})

tokens_in_step(text, T, S) ==
    tokens_from(text, {t \in DOMAIN text : T <= t /\ t < T + S})

\* C2: every note-on/note-off pair with positive duration and a mapped pitch
\* symbol adds exactly one token, filed under the note-on tick; in the returned
\* rows every recorded token sits in the row whose tick is its note-on tick
\* rounded down to a multiple of S, tokens of one grid step are all kept in
\* ascending source-tick order, and a row is "rest" exactly when no token falls
\* in its step.
C2_TokenPlacement ==
    /\ (/\ closed # NoPair
        /\ pc = "extracting"
        /\ closed.off.tick > closed.on.tick
        /\ get_note_name(closed.off.pitch, program_for_event(closed.off, closed.program)) # None)
       => /\ Cardinality(closed.added) = 1
          /\ \A a \in closed.added : a[1] = closed.on.tick
    /\ (Converted /\ result.kind = "returned" /\ result.rows # <<>>)
       => /\ \A t \in TokenTicks : \E i \in 1..Len(result.rows) :
                /\ result.rows[i].timestamp <= t
                /\ t < result.rows[i].timestamp + StepTicks
          /\ \A i \in 1..Len(result.rows) :
                LET here == tokens_in_step(consumed.text, result.rows[i].timestamp, StepTicks)
                IN  result.rows[i].notes = IF here = <<>> THEN <<REST>> ELSE here

\* C2 witness: rows were returned in which one grid step holds the tokens of two
\* different source ticks and another row is a rest
W_C2 ==
    /\ Converted
    /\ result.kind = "returned"
    /\ \E i \in 1..Len(result.rows) :
          /\ Len(result.rows[i].notes) = 2
          /\ Cardinality({t \in TokenTicks : result.rows[i].timestamp <= t
                                             /\ t < result.rows[i].timestamp + StepTicks}) = 2
    /\ \E i \in 1..Len(result.rows) : result.rows[i].notes = <<REST>>

\* rows of the grid per whole note
GridPerWhole == 4 * timing_quantization_ratio[2]

\* the signature every entry of the consumed time-signature timeline carries
TheSignature == consumed.ts[1][2]

ConstantSignature == \A i \in 1..Len(consumed.ts) : consumed.ts[i][2] = TheSignature

C4_VelocityZeroIsNoteOff ==
    (pc = "extracting" /\ track_no >= 1) =>
        \A t \in Ticks, c \in Channels, p \in Pitches :
            t >= last_tick =>
                process_midi_event(Scratch, NoteOffEvent(t, c, p), current_program, resolution)
                = process_midi_event(Scratch, NoteOnEvent(t, c, p, 0), current_program, resolution)

\* C4 witness: a velocity-0 note-on closed a pending note and a token was added
W_C4 ==
    /\ closed # NoPair
    /\ closed.off.type = "NoteOnEvent"
    /\ closed.off.velocity = 0
    /\ closed.added # {}

\* C5: every token produced from a note-on/note-off pair on channel 9 has the
\* instrument "percussion", whatever program the track had been set to.
C5_DrumChannelIsPercussion ==
    (/\ closed # NoPair
     /\ closed.on.channel = MIDI_DRUM_CHANNEL
     /\ closed.off.channel = MIDI_DRUM_CHANNEL)
    => \A a \in closed.added : a[3][1] = PERCUSSION

\* C5 witness: a pair on channel 9 produced a token on a track whose program a
\* program change had set
W_C5 ==
    /\ closed # NoPair
    /\ closed.on.channel = MIDI_DRUM_CHANNEL
    /\ closed.off.channel = MIDI_DRUM_CHANNEL
    /\ closed.program \in Programs
    /\ closed.added # {}

\* C6: no token in any returned row carries a duration that is zero or negative.
CE_C6 ==
    result.kind = "returned" =>
        \A i \in 1..Len(result.rows) : \A j \in 1..Len(result.rows[i].notes) :
            result.rows[i].notes[j] # REST => result.rows[i].notes[j][3] > 0

\* C7: when a readable input produces no note token, convert_to_dataframe
\* returns an empty result and does not raise.
CE_C7 == (Converted /\ TokenTicks = {}) => result = Returned(<<>>)

\* C8: whenever the MIDI collaborator fails to load the source, whichever
\* failure it signals, convert_to_dataframe returns an empty result, leaves the
\* scratch state empty and does not propagate the failure.
CE_C8 == load_error # "none" => (result = Returned(<<>>) /\ Scratch = EmptyScratch)

\* C9: whatever the outcome of the earlier calls on the instance, the
\* timelines, the pending-note map and the token accumulator are empty when a
\* call starts processing events.
CE_C9 == (pc = "extracting" /\ track_no = 0) => Scratch = EmptyScratch

\* C10: if the tick range of the recorded tokens implies more quantized steps
\* than the ceiling, the result is empty with the scratch state reset;
\* otherwise the grid is generated.
CE_C10 ==
    (Converted /\ TokenTicks # {} /\ StepTicks > 0) =>
        IF SetMax(TokenTicks) \div StepTicks > MAX_TIMESTAMP
        THEN result = Returned(<<>>) /\ Scratch = EmptyScratch
        ELSE result.kind = "returned" /\ Len(result.rows) >= 1

\* the program a closed pair was played with
PairProgram == program_for_event(closed.off, closed.program)

\* the last event closed a pending note of positive duration whose instrument
\* or whose pitch has no entry in the note-mapping configuration
UnmappedPair ==
    /\ closed # NoPair
    /\ closed.off.tick > closed.on.tick
    /\ \/ program_name_raises(PairProgram)
       \/ get_note_name(closed.off.pitch, PairProgram) = None

failure_count(failures, program, note) ==
    IF program \in DOMAIN failures /\ note \in DOMAIN failures[program]
    THEN failures[program][note] ELSE 0

\* C11: a note whose pitch or whose instrument has no entry in the note-mapping
\* configuration is skipped: no token is added, its pending entry is cleared,
\* the failure count of its (program, note) grows by exactly one, and the
\* conversion goes on without raising.
CE_C11 ==
    UnmappedPair =>
        /\ closed.added = {}
        /\ closed.off.pitch \notin DOMAIN on_notes
        /\ failure_count(note_lookup_failures, PairProgram, closed.off.pitch)
           = failure_count(closed.failures, PairProgram, closed.off.pitch) + 1
        /\ pc = "extracting"
        /\ result.kind # "raised"

\* the scheduled events, as <<timestamp, position in the timestamp's list>>
ScheduledEvents ==
    UNION {{<<t, i>> : i \in 1..Len(midi_events_by_timestamp[t])}
           : t \in DOMAIN midi_events_by_timestamp}

\* the scheduled events of one kind that came from the word with the given id
events_of(id, type) ==
    {a \in ScheduledEvents :
        /\ midi_events_by_timestamp[a[1]][a[2]].id = id
        /\ midi_events_by_timestamp[a[1]][a[2]].event.type = type}

\* C12: every non-rest token in a row r that convert_to_midi has processed, with
\* duration d, has scheduled exactly one note-on at tick r*(resolution/4) and
\* exactly one note-off of the same pitch and channel at tick
\* r*(resolution/4) + d*resolution, on the channel held by the token's instrument.
C12_NoteScheduling ==
    \A r \in 1..row_index : \A j \in 1..Len(dataframe.notes[r]) :
        LET word == dataframe.notes[r][j]
            ons == events_of(<<r - 1, j>>, "NoteOnEvent")
            offs == events_of(<<r - 1, j>>, "NoteOffEvent")
        IN  word # REST =>
              /\ Cardinality(ons) = 1
              /\ Cardinality(offs) = 1
              /\ \A a \in ons, b \in offs :
                    LET on == midi_events_by_timestamp[a[1]][a[2]].event
                        off == midi_events_by_timestamp[b[1]][b[2]].event
                    IN  /\ 4 * a[1] = (r - 1) * DEFAULT_MIDI_RESOLUTION
                        /\ DurUnit * b[1] = DurUnit * a[1] + word[3] * DEFAULT_MIDI_RESOLUTION
                        /\ off.pitch = on.pitch
                        /\ off.channel = on.channel
                        /\ on.channel \in DOMAIN prog_names_by_track_num
                        /\ prog_names_by_track_num[on.channel] = word[1]

\* C12 witness: a call has written a frame whose second row holds a note that
\* lasts beyond the third row
W_C12 ==
    /\ w_result = Written
    /\ row_index >= 3
    /\ \E j \in 1..Len(dataframe.notes[2]) :
          dataframe.notes[2][j] # REST /\ dataframe.notes[2][j][3] = 40

\* the sum of the deltas of the first i events of a track
RECURSIVE delta_sum(_, _)
delta_sum(track, i) == IF i = 0 THEN 0 ELSE track[i].event.tick + delta_sum(track, i - 1)

NoteEntries(track) == {i \in 1..Len(track) : track[i].id # NoWord}

\* C13: on every track written the note events come in non-decreasing
\* absolute-tick order, every delta is >= 0, and the deltas up to and including
\* an event sum to the tick the event was scheduled at; every scheduled event is
\* on the track of its channel exactly once.
C13_DeltaEncoding ==
    w_result = Written =>
        /\ \A k \in DOMAIN midi_tracks_by_track_num :
              LET track == midi_tracks_by_track_num[k]
              IN  \A i \in NoteEntries(track) :
                     /\ track[i].event.tick >= 0
                     /\ track[i].event.channel = k
                     /\ \E a \in events_of(track[i].id, track[i].event.type) :
                           a[1] = delta_sum(track, i)
                     /\ \A i2 \in NoteEntries(track) :
                           i2 < i => delta_sum(track, i2) <= delta_sum(track, i)
        /\ \A a \in ScheduledEvents :
              LET e == midi_events_by_timestamp[a[1]][a[2]]
                  track == midi_tracks_by_track_num[e.event.channel]
              IN  Cardinality({i \in NoteEntries(track) :
                                  track[i].id = e.id /\ track[i].event.type = e.event.type}) = 1

\* C13 witness: two instruments were written, and on one track a note-on
\* follows the note-on of an earlier row whose note-off comes later
W_C13 ==
    /\ w_result = Written
    /\ Cardinality({k \in DOMAIN midi_tracks_by_track_num :
                       NoteEntries(midi_tracks_by_track_num[k]) # {}}) >= 2
    /\ \E k \in DOMAIN midi_tracks_by_track_num :
          LET track == midi_tracks_by_track_num[k]
          IN  \E i \in NoteEntries(track) :
                 /\ i + 1 \in NoteEntries(track)
                 /\ track[i].event.type = "NoteOnEvent"
                 /\ track[i + 1].event.type = "NoteOnEvent"
                 /\ track[i + 1].id # track[i].id
                 /\ track[i + 1].event.tick > 0

\* all 16 channels are in use and a row that iterrows() has yielded holds a
\* token of an instrument that has none
OverflowWord ==
    /\ Cardinality(DOMAIN prog_names_by_track_num) = TRACK_LIMIT
    /\ \E r \in 1..Len(dataframe.notes) : \E j \in 1..Len(dataframe.notes[r]) :
          /\ dataframe.notes[r][j] # REST
          /\ dataframe.notes[r][j][1] \notin program_names_in_use(WriterState)

\* C14: when all 16 channels are in use and a row holds a token of a further
\* instrument, convert_to_midi drops that token, goes on with the remaining
\* tokens and rows, and completes normally.
CE_C14 ==
    OverflowWord =>
        /\ w_result.kind # "raised"
        /\ row_index = Len(dataframe.notes)

\* the entries of a timeline are in strictly ascending tick order
Ascending(od) == \A i \in 1..(Len(od) - 1) : od[i][1] < od[i + 1][1]

\* the value recorded under the greatest tick <= t
latest_value(od, t) ==
    LET at_or_before == {i \in 1..Len(od) : od[i][1] <= t}
    IN  od[CHOOSE i \in at_or_before : \A j \in at_or_before : od[j][1] <= od[i][1]][2]

\* C15: for a non-empty timeline in ascending tick order and a query tick t,
\* _get_value_at_timestamp returns the value of the entry with the greatest key
\* <= t, and the first entry's value if t is below every key.
C15_ValueAtTimestamp ==
    (/\ call_args.fn = "get_value_at_timestamp"
     /\ call_ret # <<>>
     /\ Ascending(call_args.values))
    => call_ret[1] = IF \E i \in 1..Len(call_args.values) :
                           call_args.values[i][1] <= call_args.timestamp
                     THEN latest_value(call_args.values, call_args.timestamp)
                     ELSE call_args.values[1][2]

\* C15 witness: the lookup returned for an ascending timeline of three entries
\* with different values and a tick between its second and third key
W_C15 ==
    /\ call_args.fn = "get_value_at_timestamp"
    /\ call_ret # <<>>
    /\ Len(call_args.values) = 3
    /\ Ascending(call_args.values)
    /\ call_args.values[2][1] < call_args.timestamp
    /\ call_args.timestamp < call_args.values[3][1]
    /\ call_args.values[1][2] # call_args.values[2][2]
    /\ call_args.values[2][2] # call_args.values[3][2]

\* C16: for every instrument with an allowed-duration set and every raw
\* duration, applying the duration quantization to its own result returns that
\* same result.
C16_QuantizationIdempotent ==
    (/\ call_args.fn = "quantize_duration"
     /\ Len(call_ret) = 2
     /\ call_args.instrument \in DOMAIN duration_values)
    => call_ret[2] = call_ret[1]

\* C16 witness: the quantization was applied twice for an instrument whose
\* allowed durations are not multiples of 0.125, the first result being none of
\* the allowed durations
W_C16 ==
    /\ call_args.fn = "quantize_duration"
    /\ Len(call_ret) = 2
    /\ call_args.instrument \in DOMAIN duration_values
    /\ call_ret[1] > 0
    /\ \A i \in 1..Len(duration_values[call_args.instrument]) :
          duration_values[call_args.instrument][i] # call_ret[1]

\* C17: every returned row reports the tempo and the time signature of the
\* change event with the greatest tick <= the row's tick among the events of all
\* tracks.
CE_C17 ==
    (Converted /\ result.kind = "returned") =>
        \A i \in 1..Len(result.rows) :
            LET t == result.rows[i].timestamp
            IN  /\ (\E k \in 1..Len(consumed.bpm) : consumed.bpm[k][1] <= t)
                   => result.rows[i].bpm = latest_value(consumed.bpm, t)
                /\ (\E k \in 1..Len(consumed.ts) : consumed.ts[k][1] <= t)
                   => result.rows[i].time_signature = latest_value(consumed.ts, t)

\* C18: a token's duration is the member of the instrument's allowed-duration
\* set nearest to the raw duration (the first such member in definition order)
\* when the configuration supplies a set, and the raw duration rounded to the
\* nearest multiple of 1/8 quarter note when it supplies none.
CE_C18 ==
    (closed # NoPair /\ pc = "extracting") =>
        \A a \in closed.added :
            LET instrument == a[3][1]
                duration == a[3][3]
                ticks == closed.off.tick - closed.on.tick
                distance(x) == Abs(x * resolution - ticks * DurUnit)
            IN  IF instrument \in DOMAIN duration_values
                THEN LET allowed == duration_values[instrument]
                         nearest == {i \in 1..Len(allowed) :
                                        \A j \in 1..Len(allowed) : distance(allowed[i]) <= distance(allowed[j])}
                     IN  duration = allowed[SetMin(nearest)]
                ELSE /\ duration % 8 = 0
                     /\ 2 * distance(duration) <= 8 * resolution

\* the row index i (1-based) lands on a beat boundary of the signature in
\* effect, on the sixteenth grid
LandsOnBeat(i) == ((i - 1) * result.rows[i].time_signature[2]) % GridPerWhole = 0

\* the beat counter at row i before any restart
BeatCounter(i) ==
    result.rows[i - 1].beat \div BeatUnit + (IF LandsOnBeat(i) THEN 1 ELSE 0)

SignatureChanged(i) == result.rows[i].time_signature # result.rows[i - 1].time_signature

\* C19: at each row after the first the measure grows by exactly 1 and the beat
\* counter restarts at 1 if and only if the beat counter has exceeded the
\* numerator in effect or the signature in effect differs in value from the
\* previous row's; otherwise the measure is unchanged.
C19_MeasureAdvance ==
    (Converted /\ result.kind = "returned" /\ result.rows # <<>>) =>
        /\ result.rows[1].measure = 1
        /\ \A i \in 2..Len(result.rows) :
              IF BeatCounter(i) > result.rows[i].time_signature[1] \/ SignatureChanged(i)
              THEN /\ result.rows[i].measure = result.rows[i - 1].measure + 1
                   /\ result.rows[i].beat \div BeatUnit = 1
              ELSE /\ result.rows[i].measure = result.rows[i - 1].measure
                   /\ result.rows[i].beat \div BeatUnit = BeatCounter(i)

\* C19 witness: rows were returned in which, at one row, the beat counter
\* exceeded the numerator and the signature changed as well
W_C19 ==
    /\ Converted
    /\ result.kind = "returned"
    /\ \E i \in 2..Len(result.rows) :
          /\ BeatCounter(i) > result.rows[i].time_signature[1]
          /\ SignatureChanged(i)
          /\ result.rows[i].measure = result.rows[i - 1].measure + 1

\* rows were returned for a file in which a time-signature event re-declared
\* the signature in effect, and the measure did not advance at its row
RedeclaredSignature ==
    /\ Converted
    /\ result.kind = "returned"
    /\ \E k \in 2..Len(consumed.ts) :
          /\ consumed.ts[k][2] = consumed.ts[k - 1][2]
          /\ consumed.ts[k - 1][1] < consumed.ts[k][1]
          /\ \E i \in 2..Len(result.rows) :
                /\ result.rows[i].timestamp = consumed.ts[k][1]
                /\ result.rows[i].measure = result.rows[i - 1].measure

\* C20: a note-off (or velocity-0 note-on) whose tick is less than or equal to
\* the pending note-on's tick adds no token and removes the pending entry, so
\* that a later note-off for the pitch finds nothing pending and changes nothing.
C20_NonPositiveDurationDropped ==
    (closed # NoPair /\ closed.off.tick <= closed.on.tick) =>
        /\ closed.added = {}
        /\ closed.off.pitch \notin DOMAIN on_notes
        /\ pc = "extracting"
        /\ \A t \in Ticks, c \in Channels :
              process_midi_event(Scratch, NoteOffEvent(t, c, closed.off.pitch),
                                 current_program, resolution).st = Scratch

\* C20 witness: a note-off at the tick of the pending note-on of a mapped pitch
\* has been processed
W_C20 ==
    /\ closed # NoPair
    /\ closed.off.tick = closed.on.tick
    /\ get_note_name(closed.off.pitch, PairProgram) # None
    /\ ~program_name_raises(PairProgram)

(***************************************************************************)
(* Pending notes                                                           *)
(***************************************************************************)
\* the events of the alphabet the current track can bring next
NextEvents == {e \in Events : e.tick >= last_tick}

\* the note-offs, and note-ons of velocity 0, for a pitch that is not pending
StrayNoteOffs == {e \in NextEvents : IsNoteOff(e) /\ e.pitch \notin DOMAIN on_notes}

\* C21: a note-off, or a note-on of velocity 0, for a pitch with no pending
\* note-on does nothing: no exception escapes, no token is added, and the
\* pending notes, the recorded tokens and both meter timelines stay as they were.
C21_StrayNoteOffIsNoOp ==
    (pc = "extracting" /\ track_no >= 1) =>
        \A e \in StrayNoteOffs :
            LET r == process_midi_event(Scratch, e, current_program, resolution)
            IN  /\ r.exc = "none"
                /\ r.st = Scratch
                /\ tokens_added(text_sequence, r.st.text) = {}

\* C21 witness: the first call processed one event after tick 0, a note event
\* (only a note event sets the default program), and nothing is pending or recorded
W_C21 ==
    /\ pc = "extracting"
    /\ calls = 1
    /\ ev_count = 1
    /\ last_tick >= 1
    /\ current_program = DEFAULT_PROGRAM
    /\ Scratch = EmptyScratch

\* C22: a note-on of positive velocity for a pitch that is still pending adds no
\* token and replaces the pending entry; the next note-off of the pitch adds
\* exactly one token, filed under the tick of the second note-on with the
\* duration measured from the second note-on, and none under the first.
C22_SecondNoteOnOverwrites ==
    /\ (pc = "extracting" /\ track_no >= 1) =>
          \A e \in NextEvents :
              IsTrueNoteOn(e) =>
                  LET r == process_midi_event(Scratch, e, current_program, resolution)
                  IN  /\ r.st.text = text_sequence
                      /\ r.st.on[e.pitch] = <<e.tick, e>>
    /\ (/\ closed # NoPair
        /\ closed.origin.replaced >= 0
        /\ closed.off.tick > closed.origin.tick)
       => /\ Cardinality(closed.added) = 1
          /\ \A a \in closed.added :
                /\ a[1] = closed.origin.tick
                /\ a[3][3] = quantize_duration(a[3][1], closed.off.tick - closed.origin.tick,
                                               resolution)
          /\ closed.off.pitch \notin DOMAIN on_notes

\* C22 witness: a note-off closed a note-on that had replaced an earlier,
\* still pending note-on of the same pitch, and a token was added
W_C22 ==
    /\ closed # NoPair
    /\ closed.origin.replaced >= 0
    /\ closed.origin.replaced < closed.origin.tick
    /\ closed.off.tick > closed.origin.tick
    /\ closed.added # {}

(***************************************************************************)
(* Channel assignment of the writer                                        *)
(***************************************************************************)
\* a convert_to_midi call is inside its row loop, or has written its file
CallInProgressOrWritten == w_pc = "rows" \/ w_result = Written

\* the channels assigned to instruments other than percussion
MelodicChannels == (DOMAIN prog_names_by_track_num) \ {PERCUSSION_CHANNEL}

ChannelAssignmentInvariant ==
    CallInProgressOrWritten =>
        /\ DOMAIN prog_names_by_track_num \subseteq 0..(TRACK_LIMIT - 1)
        \* percussion is on channel 9 and nothing else is
        /\ PERCUSSION_CHANNEL \in DOMAIN prog_names_by_track_num
        /\ \A k \in DOMAIN prog_names_by_track_num :
              prog_names_by_track_num[k] = PERCUSSION <=> k = PERCUSSION_CHANNEL
        \* no two channels carry the same instrument
        /\ \A j, k \in DOMAIN prog_names_by_track_num :
              prog_names_by_track_num[j] = prog_names_by_track_num[k] => j = k
        \* the channels were given out lowest first: after the drum track the
        \* tracks were appended in ascending channel order, leaving no gap
        /\ \A k \in MelodicChannels :
              \A j \in 0..(k - 1) : j \in DOMAIN prog_names_by_track_num
        /\ Len(pattern) >= 1 /\ pattern[1] = PERCUSSION_CHANNEL
        /\ \A i \in 2..(Len(pattern) - 1) : pattern[i] < pattern[i + 1]
        \* exactly one track per assigned channel
        /\ DOMAIN midi_tracks_by_track_num = DOMAIN prog_names_by_track_num
        /\ Len(pattern) = Cardinality(DOMAIN prog_names_by_track_num)
        /\ {pattern[i] : i \in 1..Len(pattern)} = DOMAIN prog_names_by_track_num

ChannelAssignmentStable ==
    w_pc = "rows" =>
        \A k \in DOMAIN prog_names_by_track_num :
            /\ k \in DOMAIN prog_names_by_track_num'
            /\ prog_names_by_track_num'[k] = prog_names_by_track_num[k]

\* C23: throughout the row loop of convert_to_midi, and when it has written its
\* file, the instruments map one-to-one to channels: percussion and nothing else
\* is on channel 9, every other instrument got the lowest channel of 0..15 not
\* assigned before it, each assigned channel has exactly one track, and no step
\* of the call changes the channel of an instrument already assigned.
C23_ChannelAssignment ==
    /\ []ChannelAssignmentInvariant
    /\ [][ChannelAssignmentStable]_vars

\* C23 witness: a call in its row loop has assigned channels on both sides of
\* the percussion channel
W_C23 ==
    /\ w_pc = "rows"
    /\ (PERCUSSION_CHANNEL - 1) \in MelodicChannels
    /\ (PERCUSSION_CHANNEL + 1) \in MelodicChannels

(***************************************************************************)
(* Tracks                                                                  *)
(***************************************************************************)
\* C24: a note-off is paired only with a note-on of its pitch that arrived
\* earlier in the same track of the same file: a note-on left pending by one
\* track yields no token when a later track brings a note-off for the pitch.
CE_C24 ==
    (closed # NoPair /\ closed.added # {}) =>
        /\ closed.origin.call = calls
        /\ closed.origin.track = closed.track

\* the drum-channel note events the current track can bring next
DrumNoteEvents == {e \in NextEvents : IsNoteEvent(e) /\ e.channel = MIDI_DRUM_CHANNEL}

\* the tokens recorded, and the exception raised, once a track with the given
\* current program has brought a note-on and then a note-off
notes_after(st, program, on_event, off_event) ==
    LET r1 == process_midi_event(st, on_event, program, resolution)
        r2 == process_midi_event(r1.st, off_event, r1.program, resolution)
    IN  [text |-> r2.st.text, exc |-> r2.exc]

\* C25: a drum-channel note leaves the track's current instrument as it was, so
\* a note on another channel that follows is recorded with the instrument it
\* would have had without the drum-channel note: that of the track's last
\* program change, or the default program 1.
CE_C25 ==
    (pc = "extracting" /\ track_no >= 1) =>
        \A d \in DrumNoteEvents :
            LET after_d == process_midi_event(Scratch, d, current_program, resolution)
            IN  after_d.exc = "none" =>
                    \A p \in Pitches, t1 \in Ticks, t2 \in Ticks :
                        (d.tick <= t1 /\ t1 < t2) =>
                            notes_after(after_d.st, after_d.program,
                                        NoteOnEvent(t1, 0, p, 100), NoteOffEvent(t2, 0, p))
                            = notes_after(after_d.st, current_program,
                                          NoteOnEvent(t1, 0, p, 100), NoteOffEvent(t2, 0, p))

(***************************************************************************)
(* Beat values                                                             *)
(***************************************************************************)
\* C27: in every returned row the beat b satisfies 1 <= b < numerator + 1 for
\* the row's time signature, and every row whose measure number is greater than
\* that of the row before it, a time-signature change included, has beat 1.0.
CE_C27 ==
    (Converted /\ result.kind = "returned") =>
        \A i \in 1..Len(result.rows) :
            /\ BeatUnit <= result.rows[i].beat
            /\ result.rows[i].beat < (result.rows[i].time_signature[1] + 1) * BeatUnit
            /\ (i > 1 /\ result.rows[i].measure > result.rows[i - 1].measure)
               => result.rows[i].beat = BeatUnit

(***************************************************************************)
(* Round trip                                                              *)
(***************************************************************************)
\* the rows read back from the pattern written, on the grid of the first reading
RowsReadBack ==
    convert_to_dataframe(written_tracks, DEFAULT_MIDI_RESOLUTION, timing_quantization_ratio).rows

\* the number of times a token occurs in the notes of a row
occurrences(notes, token) == Cardinality({j \in 1..Len(notes) : notes[j] = token})

\* the tokens of the i-th row of a frame; a row the frame lacks has none
row_notes(rows, i) == IF i <= Len(rows) THEN rows[i].notes ELSE <<REST>>

\* two rows hold the same tokens the same number of times, the rest aside
SameTokens(a, b) ==
    \A token \in ({a[j] : j \in 1..Len(a)} \cup {b[j] : j \in 1..Len(b)}) \ {REST} :
        occurrences(a, token) = occurrences(b, token)

\* the rows of the frame written that hold a token
NoteBearingRows == {i \in 1..Len(result.rows) : result.rows[i].notes # <<REST>>}

\* the frame the reader returned has been written completely
RoundTripDone ==
    /\ w_result = Written
    /\ pc = "idle"
    /\ result.kind = "returned"
    /\ dataframe.len = Len(result.rows)

\* C26: when rows the reader returned on the sixteenth grid are written by
\* convert_to_midi and the events written are extracted again, every row up to
\* the last row that holds a token has the same tokens, each the same number of
\* times, as the row it came from.
CE_C26 ==
    (RoundTripDone /\ NoteBearingRows # {}) =>
        \A i \in 1..SetMax(NoteBearingRows) :
            SameTokens(result.rows[i].notes, row_notes(RowsReadBack, i))

====
